---- MODULE Spec2Model ----
(***************************************************************************)
(* tree.py: main parses sys.argv, directory_sanitizer validates the root   *)
(* path, print_tree prints the header and print_directory walks the        *)
(* directory recursively, printing one line per entry.                     *)
(*                                                                         *)
(* Strings are sequences of one-character strings.  The box-drawing        *)
(* characters are written by their code points ("U+2502" is one            *)
(* character).  A path below the traversal root is the sequence of the     *)
(* entries joined to the root directory, each entry being a node of the    *)
(* directory snapshot fs; the entry's name is Name(fs, node).              *)
(***************************************************************************)
EXTENDS Integers, Sequences, FiniteSets

VARIABLES
    pc,                \* position: start, sanitize, tree, walk, done, exit, raised
    argv,              \* sys.argv (<<>> when print_tree is called directly)
    directory,         \* print_tree's directory argument (path components)
    include_dotfiles,  \* print_tree's include_dotfiles argument
    max_depth,         \* print_tree's max_depth argument
    stat,              \* what os.stat found for the path given to directory_sanitizer
    fs,                \* the directory snapshot below the traversal root
    stack,             \* the active print_directory invocations, innermost last
    listed,            \* the paths os.listdir has been called on, in call order
    exc,               \* the path whose listing raised, <<path>>, or <<>>
    out                \* the lines printed so far

vars == <<pc, argv, directory, include_dotfiles, max_depth, stat, fs, stack,
          listed, exc, out>>

\* ------------------------------------------------------------------ bounds
MaxNodes == 3      \* entries below the root of a direct print_tree call
MaxNodesMain == 2  \* entries below the root of a command-line run
MaxDepthArg == 2   \* largest max_depth of a direct print_tree call
MaxArgs == 3       \* command-line arguments after the program name

\* --------------------------------------------------------------- constants
DefaultMaxDepth == 10

Prog == "tree.py"
Flags == {"-a", "--all"}
Tokens == Flags \cup {"r"}
Cwd == <<"home", "w">>

Tee == <<"U+251C", "U+2500", "U+2500", " ">>
Elbow == <<"U+2514", "U+2500", "U+2500", " ">>
Pipe == <<"U+2502", " ", " ", " ">>
Blank == <<" ", " ", " ", " ">>
Slash == <<"/">>
UsageText == <<"usage: tree || tree <DIR> [-a | --all]">>

\* ---------------------------------------------------------------- helpers
Last(s) == s[Len(s)]
Front(s) == SubSeq(s, 1, Len(s) - 1)

RECURSIVE SeqsUpTo(_, _)
SeqsUpTo(S, n) ==
    IF n = 0 THEN {<<>>}
    ELSE LET shorter == SeqsUpTo(S, n - 1)
         IN  shorter \cup {Append(s, x) : s \in shorter, x \in S}

\* ------------------------------------------------------ directory snapshot
\* Node 0 is the traversal root; nodes 1..n are the entries below it.  An
\* entry is a file, a directory, or a link that resolves to a directory.
\* Entries are numbered in listing order, parents before children.
Letter == <<"a", "b", "c", "d", "e", "f">>

RealDirs(f) == {0} \cup {i \in 1..f.n : f.kind[i] = "dir"}

WellFormed(f) ==
    /\ \A i \in 1..f.n : f.parent[i] < i /\ f.parent[i] \in RealDirs(f)
    /\ \A i, j \in 1..f.n : i < j => f.parent[i] <= f.parent[j]
    /\ \A i \in 1..f.n : (f.kind[i] = "link") = (i = f.link[1])
    /\ f.link[1] = 0 => f.link[2] = 0
    /\ f.link[1] # 0 => f.link[2] < f.link[1] /\ f.link[2] \in RealDirs(f)
    /\ Cardinality(f.dot) <= 1
    /\ Cardinality(f.unreadable) <= 1
    /\ f.unreadable \subseteq RealDirs(f)

\* <<i, t>>: entry i is a link to directory t; <<0, 0>>: no link.
Links(n) == {<<0, 0>>} \cup ((1..n) \X (0..(n - 1)))

SnapshotsUpTo(max) ==
    UNION {
      {f \in [n : {n}, parent : [1..n -> 0..(n - 1)],
              kind : [1..n -> {"file", "dir", "link"}],
              link : Links(n),
              dot : {{}} \cup {{i} : i \in 1..n},
              unreadable : {{}} \cup {{i} : i \in 0..n}] : WellFormed(f)}
      : n \in 0..max}

\* A command-line run walks with max_depth = 10: its snapshots are smaller.
Snapshots == SnapshotsUpTo(MaxNodes)
SnapshotsMain == SnapshotsUpTo(MaxNodesMain)

EmptySnapshot ==
    [n |-> 0, parent |-> <<>>, kind |-> <<>>, link |-> <<0, 0>>, dot |-> {},
     unreadable |-> {}]

\* The entry's name: a dot file ".a", or "a.x" with the dot inside.
Name(f, i) ==
    IF i \in f.dot THEN <<".", Letter[i]>> ELSE <<Letter[i], ".", "x">>

\* The node a path names (the root for the empty path).
NodeOf(path) == IF path = <<>> THEN 0 ELSE Last(path)

\* The directory a node resolves to (links are followed).
Resolve(f, i) == IF i # 0 /\ i = f.link[1] THEN f.link[2] ELSE i

RECURSIVE ChildrenFrom(_, _, _)
ChildrenFrom(f, d, i) ==
    IF i > f.n THEN <<>>
    ELSE (IF f.parent[i] = d THEN <<i>> ELSE <<>>) \o ChildrenFrom(f, d, i + 1)

\* os.listdir(path): the entries of the directory the path resolves to.
OsListdir(f, path) == ChildrenFrom(f, Resolve(f, NodeOf(path)), 1)

\* os.listdir(path) raises (the directory cannot be read).
ListdirRaises(f, path) == Resolve(f, NodeOf(path)) \in f.unreadable

\* os.path.isdir(path) for a path built by the traversal.
IsDirEntry(f, path) == f.kind[NodeOf(path)] \in {"dir", "link"}

\* os.path.isdir(path) for a path given on the command line: True for a
\* directory, False for anything else; a failing os.stat is swallowed, it
\* never raises.
OsPathIsdir(st) == st = "dir"

StatOutcomes == {"dir", "file", "missing", "denied", "oserror"}

\* os.path.basename
Basename(path) == IF path = <<>> THEN "" ELSE Last(path)

\* ------------------------------------------------------------------ lines
Line(kind, text, path) == [kind |-> kind, text |-> text, path |-> path]

UsageLine == Line("usage", UsageText, <<>>)

NotFoundLine(path) ==
    Line("diag", <<"error: the directory '", path, "' does not exist.">>, <<>>)

PermissionLine(path) ==
    Line("diag", <<"error: you do not have the necessary permissions to access '",
                   path, "'.">>, <<>>)

OsErrorLine(e) ==
    Line("diag", <<"error checking directory:\n", e>>, <<>>)

\* Variant: the header names the root argument.
HeaderTextOfRoot == <<Basename(directory)>> \o Slash

HeaderText == <<Basename(Cwd)>> \o Slash

HeaderLine == Line("header", HeaderText, <<>>)

\* ------------------------------------------------------------------- main
\* Variant: the flag is accepted in any position.
IsAllAnywhere(av) == \E i \in 2..Len(av) : av[i] \in Flags

IsAll(av) == av[Len(av)] \in Flags

\* The branch main takes: the call it makes and its arguments.
MainBranch(av) ==
    LET args_amount == Len(av)
        is_all == IsAll(av)
    IN  IF args_amount = 1
          THEN [do |-> "tree", directory |-> Cwd, all |-> FALSE]
        ELSE IF args_amount = 2 /\ is_all
          THEN [do |-> "tree", directory |-> Cwd, all |-> is_all]
        ELSE IF args_amount = 2 /\ ~is_all
          THEN [do |-> "sanitize", directory |-> <<av[2]>>, all |-> FALSE]
        ELSE IF args_amount = 3 /\ is_all
          THEN [do |-> "sanitize", directory |-> <<av[2]>>, all |-> is_all]
        ELSE [do |-> "usage", directory |-> <<>>, all |-> FALSE]

Argvs == {<<Prog>> \o a : a \in SeqsUpTo(Tokens, MaxArgs)}

Main ==
    /\ pc = "start"
    /\ \E av \in Argvs :
         LET b == MainBranch(av)
         IN  /\ argv' = av
             /\ directory' = b.directory
             /\ include_dotfiles' = b.all
             /\ pc' = IF b.do = "usage" THEN "exit" ELSE b.do
             /\ out' = IF b.do = "usage" THEN Append(out, UsageLine) ELSE out
    /\ UNCHANGED <<max_depth, stat, fs, stack, listed, exc>>

\* ---------------------------------------------------- directory_sanitizer
\* What the try block prints: nothing when the path is a directory.  The
\* exception that reaches the except clauses is the one os.path.isdir lets
\* through, and it lets none through.
IsdirException(st) == "none"

SanitizerOutput(path, st) ==
    IF IsdirException(st) = "FileNotFoundError" THEN <<NotFoundLine(path)>>
    ELSE IF IsdirException(st) = "PermissionError" THEN <<PermissionLine(path)>>
    ELSE IF IsdirException(st) = "OSError" THEN <<OsErrorLine(st)>>
    ELSE IF OsPathIsdir(st) THEN <<>>
    ELSE <<NotFoundLine(path)>>

SanitizerResult(st) == IsdirException(st) = "none" /\ OsPathIsdir(st)

DirectorySanitizer ==
    /\ pc = "sanitize"
    /\ \E st \in StatOutcomes :
         /\ stat' = st
         /\ out' = out \o SanitizerOutput(Last(directory), st)
         /\ pc' = IF SanitizerResult(st) THEN "tree" ELSE "exit"
    /\ UNCHANGED <<argv, directory, include_dotfiles, max_depth, fs, stack,
                   listed, exc>>

\* ------------------------------------------------------------- print_tree
DepthArgs == (-2)..MaxDepthArg

\* print_tree called directly, with a max_depth of the caller's choice.
CallPrintTree ==
    /\ pc = "start"
    /\ \E a \in BOOLEAN, m \in DepthArgs :
         /\ directory' = <<"r">>
         /\ include_dotfiles' = a
         /\ max_depth' = m
    /\ pc' = "tree"
    /\ UNCHANGED <<argv, stat, fs, stack, listed, exc, out>>

Frame(path, prefix, depth) ==
    [path |-> path, prefix |-> prefix, current_depth |-> depth,
     items |-> <<>>, index |-> 0, at |-> "enter"]

\* print_tree prints the header and calls print_directory on the root.  The
\* snapshot of the directory tree below the root is fixed when the walk starts.
PrintTree ==
    /\ pc = "tree"
    /\ \E f \in (IF argv = <<>> THEN Snapshots ELSE SnapshotsMain) : fs' = f
    /\ out' = Append(out, HeaderLine)
    /\ stack' = <<Frame(<<>>, <<>>, 0)>>
    /\ pc' = "walk"
    /\ UNCHANGED <<argv, directory, include_dotfiles, max_depth, stat, listed, exc>>

\* -------------------------------------------------------- print_directory
Top == stack[Len(stack)]

\* Variants of the depth guard: one level early, one level late.
DepthExceededAtLimit(current_depth, max) == current_depth >= max
DepthExceededLate(current_depth, max) == current_depth > max + 1

DepthExceeded(current_depth, max) == current_depth > max

StartsWithDot(name) == Len(name) > 0 /\ name[1] = "."

\* Variant: the listing is never filtered.
FilterDotfilesIgnored(f, items, include) == items

FilterDotfiles(f, items, include) ==
    IF include = FALSE
      THEN SelectSeq(items, LAMBDA item : ~StartsWithDot(Name(f, item)))
      ELSE items

\* Variant: the last index is taken to be count.
IsLastPastEnd(index, count) == index = count

IsLast(index, count) == index = count - 1

Connector(is_last) == IF is_last THEN Elbow ELSE Tee

Suffix(isdir) == IF isdir THEN Slash ELSE <<>>

LineText(prefix, is_last, name, isdir) ==
    prefix \o Connector(is_last) \o name \o Suffix(isdir)

\* Variant: the two segments are exchanged.
ChildPrefixSwapped(prefix, is_last) == prefix \o (IF is_last THEN Pipe ELSE Blank)

ChildPrefix(prefix, is_last) == prefix \o (IF is_last THEN Blank ELSE Pipe)

Popped == SubSeq(stack, 1, Len(stack) - 1)

AfterReturn == IF Len(stack) = 1 THEN "done" ELSE "walk"

\* The depth guard: the invocation returns before listing.
PrintDirectoryTooDeep ==
    /\ pc = "walk"
    /\ Top.at = "enter"
    /\ DepthExceeded(Top.current_depth, max_depth)
    /\ stack' = Popped
    /\ pc' = AfterReturn
    /\ UNCHANGED <<argv, directory, include_dotfiles, max_depth, stat, fs,
                   listed, exc, out>>

\* os.listdir succeeds: the items are filtered and the loop starts.
PrintDirectoryList ==
    /\ pc = "walk"
    /\ Top.at = "enter"
    /\ ~DepthExceeded(Top.current_depth, max_depth)
    /\ ~ListdirRaises(fs, Top.path)
    /\ listed' = Append(listed, Top.path)
    /\ stack' = [stack EXCEPT ![Len(stack)] =
                   [@ EXCEPT !.items = FilterDotfiles(fs, OsListdir(fs, Top.path),
                                                      include_dotfiles),
                             !.at = "loop"]]
    /\ UNCHANGED <<pc, argv, directory, include_dotfiles, max_depth, stat, fs,
                   exc, out>>

\* Variant: a failed listing is skipped and the walk continues.
PrintDirectorySkipUnreadable ==
    /\ pc = "walk"
    /\ stack # <<>>
    /\ stack[Len(stack)].at = "enter"
    /\ stack[Len(stack)].current_depth <= max_depth
    /\ ListdirRaises(fs, stack[Len(stack)].path)
    /\ listed' = Append(listed, stack[Len(stack)].path)
    /\ exc' = <<stack[Len(stack)].path>>
    /\ stack' = SubSeq(stack, 1, Len(stack) - 1)
    /\ pc' = IF Len(stack) = 1 THEN "done" ELSE "walk"
    /\ UNCHANGED <<argv, directory, include_dotfiles, max_depth, stat, fs, out>>

\* os.listdir raises: nothing catches it, every invocation is unwound.
PrintDirectoryRaise ==
    /\ pc = "walk"
    /\ Top.at = "enter"
    /\ ~DepthExceeded(Top.current_depth, max_depth)
    /\ ListdirRaises(fs, Top.path)
    /\ listed' = Append(listed, Top.path)
    /\ exc' = <<Top.path>>
    /\ stack' = <<>>
    /\ pc' = "raised"
    /\ UNCHANGED <<argv, directory, include_dotfiles, max_depth, stat, fs, out>>

\* One iteration of the loop: print the item, and call print_directory on
\* it when it is a directory.
PrintDirectoryItem ==
    /\ pc = "walk"
    /\ Top.at = "loop"
    /\ Top.index < Len(Top.items)
    /\ LET item == Top.items[Top.index + 1]
           path == Append(Top.path, item)
           is_last == IsLast(Top.index, Len(Top.items))
           isdir == IsDirEntry(fs, path)
           here == [Top EXCEPT !.index = @ + 1]
       IN  /\ out' = Append(out, Line("entry",
                        LineText(Top.prefix, is_last, Name(fs, item), isdir), path))
           /\ stack' = IF isdir
                         THEN Append(Append(Popped, here),
                                     Frame(path, ChildPrefix(Top.prefix, is_last),
                                           Top.current_depth + 1))
                         ELSE Append(Popped, here)
    /\ UNCHANGED <<pc, argv, directory, include_dotfiles, max_depth, stat, fs,
                   listed, exc>>

\* The loop is over: the invocation returns.
PrintDirectoryReturn ==
    /\ pc = "walk"
    /\ Top.at = "loop"
    /\ Top.index >= Len(Top.items)
    /\ stack' = Popped
    /\ pc' = AfterReturn
    /\ UNCHANGED <<argv, directory, include_dotfiles, max_depth, stat, fs,
                   listed, exc, out>>

\* ---------------------------------------------------------- specification
Init ==
    /\ pc = "start"
    /\ argv = <<>>
    /\ directory = <<>>
    /\ include_dotfiles = FALSE
    /\ max_depth = DefaultMaxDepth
    /\ stat = "none"
    /\ fs = EmptySnapshot
    /\ stack = <<>>
    /\ listed = <<>>
    /\ exc = <<>>
    /\ out = <<>>

Next ==
    \/ Main
    \/ DirectorySanitizer
    \/ CallPrintTree
    \/ PrintTree
    \/ PrintDirectoryTooDeep
    \/ PrintDirectoryList
    \/ PrintDirectoryRaise
    \/ PrintDirectoryItem
    \/ PrintDirectoryReturn

Spec == Init /\ [][Next]_vars

Terminated == pc \in {"done", "exit", "raised"}

\* The interpreter runs the program's next step whenever there is one.
FairSpec == Spec /\ WF_vars(Next)

\* ============================================================ properties
\* The entry lines printed so far, in order.
EntryLines == SelectSeq(out, LAMBDA l : l.kind = "entry")

PrintedPaths == {out[i].path : i \in {j \in DOMAIN out : out[j].kind = "entry"}}

ListedPaths == {listed[i] : i \in DOMAIN listed}

IsPrefix(p, q) == Len(p) <= Len(q) /\ SubSeq(q, 1, Len(p)) = p

\* The entries of the directory a path resolves to, as the snapshot has them.
KidsOf(p) == {i \in 1..fs.n : fs.parent[i] = Resolve(fs, NodeOf(p))}

DotName(i) == Name(fs, i)[1] = "."

\* The entries of a directory that a listing with the current flag shows.
ShownKids(p) == {i \in KidsOf(p) : include_dotfiles \/ ~DotName(i)}

MaxOf(S) == CHOOSE x \in S : \A y \in S : y <= x
MinOf(S) == CHOOSE x \in S : \A y \in S : x <= y

DirNode(i) == fs.kind[i] # "file"

\* A path is a directory: the root, or an entry that resolves as one.
DirPath(p) == p = <<>> \/ DirNode(Last(p))

\* The directories the traversal has reached: the root and every directory
\* that has an entry line.
ReachedDirs == {<<>>} \cup {p \in PrintedPaths : DirPath(p)}

HasLinesBelow(p) == \E q \in PrintedPaths : Front(q) = p

\* C1 as stated: with max_depth = 1, a subdirectory that is a direct child of
\* the root has an entry line and none of its children is printed.
C1_ChildrenOfRootSubdirNotPrinted ==
    max_depth = 1 =>
        \A p \in PrintedPaths : (Len(p) = 1 /\ DirPath(p)) => ~HasLinesBelow(p)

\* C1 amended: with max_depth = 1, every shown child of the root is printed,
\* every shown child of a subdirectory of the root is printed too, and it is
\* the subdirectories at the next level (children of the root's
\* subdirectories) that have an entry line but no line for any child.
C1_DepthOneBoundary ==
    max_depth = 1 =>
        /\ \A p \in PrintedPaths : Len(p) <= 2
        /\ pc = "done" =>
             \A c \in ShownKids(<<>>) :
                /\ <<c>> \in PrintedPaths
                /\ DirNode(c) =>
                     \A g \in ShownKids(<<c>>) :
                        /\ <<c, g>> \in PrintedPaths
                        /\ ~HasLinesBelow(<<c, g>>)

\* A run with max_depth = 1 ends with a directory two levels below the root
\* printed, whose entries are shown by no line.
C1_Witness ==
    /\ max_depth = 1
    /\ pc = "done"
    /\ \E p \in PrintedPaths :
          Len(p) = 2 /\ DirPath(p) /\ ShownKids(p) # {} /\ ~HasLinesBelow(p)

\* C2: with the root at depth 0, the contents of a reached directory are
\* listed iff its depth is <= max_depth.  A directory at depth max_depth + 1
\* has its own line, ending in "/", and no line for its entries; max_depth = 0
\* prints the root's children only and max_depth < 0 prints no entry line.
C2_DepthLimit ==
    /\ \A p \in PrintedPaths : Len(p) - 1 <= max_depth
    /\ \A p \in ListedPaths : Len(p) <= max_depth
    /\ \A i \in DOMAIN out :
          (out[i].kind = "entry" /\ DirPath(out[i].path))
             => Last(out[i].text) = "/"
    /\ max_depth < 0 => PrintedPaths = {}
    /\ max_depth = 0 => \A p \in PrintedPaths : Len(p) = 1
    /\ pc = "done" =>
          \A p \in ReachedDirs :
             /\ (p \in ListedPaths) <=> (Len(p) <= max_depth)
             /\ \A c \in ShownKids(p) :
                   (Append(p, c) \in PrintedPaths) <=> (Len(p) <= max_depth)

\* A finished run printed a directory at depth max_depth + 1 that has entries
\* to show, and one at depth max_depth whose entries are printed.
C2_Witness ==
    /\ pc = "done"
    /\ max_depth >= 1
    /\ \E p \in PrintedPaths :
          /\ Len(p) = max_depth + 1 /\ DirPath(p) /\ ShownKids(p) # {}
          /\ HasLinesBelow(Front(p))

\* The item name printed on an entry line: what follows the 4-character
\* segments of the prefix and the 4-character connector.
ItemText(l) == SubSeq(l.text, 4 * Len(l.path) + 1, Len(l.text))

\* C3: an entry whose name starts with "." is printed iff include_dotfiles is
\* true; with the flag off no printed name starts with "." at any depth and
\* nothing beneath a dot directory is printed.
C3_HiddenFilter ==
    /\ ~include_dotfiles =>
          \A i \in DOMAIN out :
             out[i].kind = "entry" =>
                /\ ItemText(out[i])[1] # "."
                /\ \A k \in DOMAIN out[i].path : ~DotName(out[i].path[k])
    /\ pc = "done" =>
          \A p \in ListedPaths :
             \A c \in KidsOf(p) :
                DotName(c) => ((Append(p, c) \in PrintedPaths) <=> include_dotfiles)

\* A finished run with the flag on printed a dot directory of the root and an
\* entry beneath it.
C3_WitnessIncluded ==
    /\ pc = "done"
    /\ include_dotfiles
    /\ \E p \in PrintedPaths :
          Len(p) >= 2 /\ DotName(p[1]) /\ ItemText(
             CHOOSE l \in {out[i] : i \in DOMAIN out} : l.path = <<p[1]>>)[1] = "."

\* A finished run with the flag off listed a directory below the root that
\* holds a dot directory with an entry of its own.
C3_WitnessFiltered ==
    /\ pc = "done"
    /\ ~include_dotfiles
    /\ \E p \in ListedPaths :
          /\ p # <<>>
          /\ \E c \in KidsOf(p) : DotName(c) /\ DirNode(c) /\ KidsOf(<<c>>) # {}

\* The connector printed on an entry line: the 4 characters after the prefix.
ConnectorText(l) == SubSeq(l.text, 4 * Len(l.path) - 3, 4 * Len(l.path))

LinesOf(p) == {i \in DOMAIN out : out[i].kind = "entry" /\ Front(out[i].path) = p}

\* C4: among the lines of the entries of one listed directory that shows at
\* least one entry, exactly one has the connector "U+2514 U+2500 U+2500 ", the
\* line of the last entry in listing order after the dot filter, and every
\* other line has "U+251C U+2500 U+2500 ".
C4_Connector ==
    /\ \A i \in DOMAIN out :
          out[i].kind = "entry" =>
             ConnectorText(out[i]) =
                IF Last(out[i].path) = MaxOf(ShownKids(Front(out[i].path)))
                  THEN <<"U+2514", "U+2500", "U+2500", " ">>
                  ELSE <<"U+251C", "U+2500", "U+2500", " ">>
    /\ pc = "done" =>
          \A p \in ListedPaths :
             ShownKids(p) # {} =>
                Cardinality({i \in LinesOf(p) :
                    ConnectorText(out[i]) = <<"U+2514", "U+2500", "U+2500", " ">>}) = 1

\* A finished run listed a directory below the root whose last entry in
\* listing order is a dot entry that the filter removed, leaving two or more.
C4_Witness ==
    /\ pc = "done"
    /\ \E p \in ListedPaths :
          /\ p # <<>>
          /\ Cardinality(LinesOf(p)) >= 2
          /\ MaxOf(KidsOf(p)) \notin ShownKids(p)

HeaderIndexes == {i \in DOMAIN out : out[i].kind = "header"}

\* C5: a render prints exactly one header line, it is the first line of the
\* output, before every entry line, and reads basename(cwd) + "/" whatever the
\* root argument is; no header is printed for a subdirectory.
C5_Header ==
    /\ HeaderIndexes = IF pc \in {"walk", "done", "raised"} THEN {1} ELSE {}
    /\ \A i \in HeaderIndexes : out[i].text = <<"w", "/">>
    /\ PrintedPaths # {} => out[1].kind = "header"

\* A finished render of a root other than the working directory that went
\* into a subdirectory.
C5_Witness ==
    /\ pc = "done"
    /\ directory # Cwd
    /\ \E p \in PrintedPaths : Len(p) >= 2

\* The four recognized forms of the arguments after the program name: none,
\* one argument (the flag or a directory), a directory followed by the flag.
RecognizedForm(av) ==
    \/ Len(av) = 1
    \/ Len(av) = 2
    \/ Len(av) = 3 /\ av[3] \in {"-a", "--all"}

\* C6: for an argument vector that is none of the four recognized forms, main
\* prints the usage message and nothing else: no header, no entry line, no
\* validation diagnostic.
C6_Usage ==
    (argv # <<>> /\ ~RecognizedForm(argv)) =>
        /\ out = <<[kind |-> "usage",
                    text |-> <<"usage: tree || tree <DIR> [-a | --all]">>,
                    path |-> <<>>]>>
        /\ pc = "exit"
        /\ stat = "none"
        /\ stack = <<>>

\* main has returned for "-a r": the flag placed before the directory.
C6_Witness ==
    /\ argv = <<Prog, "-a", "r">>
    /\ pc = "exit"

\* C7: when the root path cannot be statted because of access rights, the
\* validator prints the permission diagnostic, not the "does not exist" one,
\* and no traversal starts.
C7_PermissionDiagnostic ==
    stat = "denied" =>
        /\ out = <<PermissionLine(argv[2])>>
        /\ pc = "exit"

\* C8: once a listing has failed the traversal is over: the exception leaves
\* every invocation, the failed listing is the last one made, and the last
\* line of the output is the one printed before the failing call (the line of
\* the failing directory, or the header when the root fails).
C8_ListingFailureAborts ==
    exc # <<>> =>
        /\ pc = "raised"
        /\ stack = <<>>
        /\ Last(listed) = exc[1]
        /\ IF exc[1] = <<>>
             THEN Len(out) = 1 /\ out[1].kind = "header"
             ELSE Last(out).kind = "entry" /\ Last(out).path = exc[1]

\* A listing failed two levels below the root while entries of the failing
\* directory's parent and of the root were still to be printed.
C8_Witness ==
    /\ pc = "raised"
    /\ Len(exc[1]) = 2
    /\ \E c \in ShownKids(<<exc[1][1]>>) : c > exc[1][2]
    /\ \E c \in ShownKids(<<>>) : c > exc[1][1]
    /\ Len(out) >= 3

\* C9 as stated, for max_depth >= 0: print_directory is never invoked with a
\* current depth greater than max_depth.
C9_NeverInvokedBeyondMaxDepth ==
    max_depth >= 0 => \A k \in DOMAIN stack : stack[k].current_depth <= max_depth

MaxInt(a, b) == IF a >= b THEN a ELSE b

\* The invocations are nested one per level, only the innermost one can be
\* about to list, no invocation is deeper than max_depth + 1 (0 for the first
\* call), none lists at a depth beyond max_depth, and no path is listed twice.
C9_Bounds ==
    /\ \A k \in DOMAIN stack :
          /\ stack[k].current_depth = k - 1
          /\ stack[k].current_depth = Len(stack[k].path)
          /\ stack[k].current_depth <= MaxInt(max_depth + 1, 0)
          /\ stack[k].at = "loop" => stack[k].current_depth <= max_depth
          /\ k < Len(stack) => stack[k].at = "loop"
    /\ Len(stack) <= MaxInt(max_depth + 2, 1)
    /\ \A i, j \in DOMAIN listed : listed[i] = listed[j] => i = j
    /\ \A i \in DOMAIN listed : Len(listed[i]) <= max_depth

\* C9 amended: on every snapshot, also one where a directory is reachable
\* from itself, and for every max_depth the traversal terminates; it lists one
\* directory at a time, at most once per invocation; print_directory is never
\* invoked with a current depth greater than max_depth + 1 (the call that
\* returns at once), and never lists at a depth greater than max_depth.
C9_TerminatesWithinDepth == []C9_Bounds /\ <>Terminated

\* An invocation at depth max_depth + 1 is about to return without listing,
\* on a path that goes through the same link twice.
C9_Witness ==
    /\ pc = "walk"
    /\ Top.at = "enter"
    /\ Top.current_depth = max_depth + 1
    /\ \E i, j \in DOMAIN Top.path :
          i < j /\ Top.path[i] = Top.path[j] /\ Top.path[i] = fs.link[1]

\* The k-th 4-character segment of a line's text.
Segment(l, k) == SubSeq(l.text, 4 * k - 3, 4 * k)

\* C10: a line at nesting depth d has a prefix of exactly d 4-character
\* segments, the k-th being four spaces if the ancestor at level k is the last
\* shown entry of its parent and "U+2502" and three spaces otherwise, followed
\* by the connector; and the lines are in depth-first pre-order: the lines of
\* a subdirectory's subtree are contiguous, start right after the
\* subdirectory's own line, and siblings appear in listing order.
C10_PrefixAndPreOrder ==
    LET E == EntryLines
    IN  /\ \A i \in DOMAIN E :
              LET d == Len(E[i].path) - 1
              IN  /\ \A k \in 1..d :
                        Segment(E[i], k) =
                           IF E[i].path[k] = MaxOf(ShownKids(SubSeq(E[i].path, 1, k - 1)))
                             THEN <<" ", " ", " ", " ">>
                             ELSE <<"U+2502", " ", " ", " ">>
                  /\ Segment(E[i], d + 1) \in {Tee, Elbow}
                  /\ ItemText(E[i]) =
                        Name(fs, Last(E[i].path)) \o
                           (IF DirPath(E[i].path) THEN <<"/">> ELSE <<>>)
        /\ \A i, j \in DOMAIN E :
              i < j =>
                 /\ E[i].path # E[j].path
                 /\ ~IsPrefix(E[j].path, E[i].path)
                 /\ IsPrefix(E[i].path, E[j].path)
                       => (j = i + 1 \/ IsPrefix(E[i].path, E[j - 1].path))
                 /\ Front(E[i].path) = Front(E[j].path)
                       => Last(E[i].path) < Last(E[j].path)
        /\ \A j \in DOMAIN E :
              Len(E[j].path) >= 2 =>
                 /\ \E i \in 1..(j - 1) : E[i].path = Front(E[j].path)
                 /\ Last(E[j].path) = MinOf(ShownKids(Front(E[j].path)))
                       => E[j - 1].path = Front(E[j].path)

\* A finished run printed a line two levels down whose prefix mixes the two
\* segments, and a line of the root after a subtree of two levels.
C10_Witness ==
    /\ pc = "done"
    /\ \E i \in DOMAIN EntryLines :
          /\ Len(EntryLines[i].path) = 3
          /\ Segment(EntryLines[i], 1) # Segment(EntryLines[i], 2)
    /\ Len(Last(out).path) = 1

====
